---- MODULE Spec2Model ----
(***************************************************************************)
(* A model of down_orbit.py: the redirect-following fetcher get_with_edl,  *)
(* the sync planner needs_download, the downloader download_file and the   *)
(* run of main.                                                            *)
(*                                                                         *)
(* FetchSpec is one call of get_with_edl against an arbitrary server.      *)
(* RunSpec is an invocation of main and its re-runs against one remote.     *)
(***************************************************************************)
EXTENDS Integers, Sequences, FiniteSets, TLC

VARIABLES
    \* ---- get_with_edl ----
    username,     \* argument username: None, "" or a name
    password,     \* argument password: None, "" or a secret
    current,      \* the URL of the current hop, [host, path]
    hops,         \* iterations of the for loop started
    fpc,          \* "loop", "returned", "http_error", "too_many"
    nreq,         \* session.get calls issued by this call
    lastStatus,   \* status of the last response received, 0 before the first
    lastNoLoc,    \* the last response received had no usable Location header
    credHosts,    \* hosts that received a request carrying the credentials
    \* ---- the remote directory, fixed during a behaviour ----
    listing,      \* names the index page links to
    sizeKnown,    \* sizeKnown[f]: the server reports the size of f in its headers
    \* ---- the destination directory ----
    local,        \* local[f]: the file at dest/f, [size, mtime]; size Absent if none
    part,         \* part[f]: size of dest/f.part, Absent if none
    disk,         \* the manifest file, [state, files, last_sync]
    \* ---- main ----
    mpc,          \* position of main
    run,          \* number of the invocation
    dry_run,      \* args.dry_run
    manifest,     \* the manifest in memory, [files, last_sync]
    items,        \* result of list_remote_files, sorted names
    k,            \* index of the loop of lines 323 or 348
    info,         \* info[f]: result of probe_size_mtime for f
    to_download,  \* the planned names, in order
    outcome,      \* outcome[f]: "none", "complete" or "failed" in this invocation
    now,          \* the wall clock, in ticks
    startTime,    \* the wall clock when the invocation started
    before,       \* [local, disk] when the invocation started
    dl,           \* the last call of download_file in this invocation:
                  \* [f, fetched, n, broke, error], f = 0 if there is none
    prevRun,      \* how the previous invocation ended, and what it had planned
    attempts,     \* attempts[f]: calls of download_file for f in this invocation
    saves,        \* calls of save_manifest in this invocation
    \* ---- list_remote_files ----
    links,        \* parser.links: the hrefs of the page, in document order
    pattern,      \* the compiled filter pattern rx
    entries,      \* the returned list of (name, url)
    lpc,          \* position: "idle", "call", "returned"
    \* ---- probe_size_mtime ----
    hdr,          \* headers of the ranged response and of the plain response
    pinfo,        \* the returned info
    pgets,        \* calls of get_with_edl made by the probe
    ppc           \* position: "idle", "call", "returned"

fvars == <<username, password, current, hops, fpc, nreq, lastStatus, lastNoLoc,
           credHosts>>

rvars == <<listing, sizeKnown, local, part, disk, mpc, run, dry_run, manifest,
           items, k, info, to_download, outcome, now, startTime, before, dl, prevRun,
           attempts, saves>>

lvars == <<links, pattern, entries, lpc>>

pvars == <<hdr, pinfo, pgets, ppc>>

vars == <<fvars, rvars, lvars, pvars>>

None == "None"

(***************************************************************************)
(* Hosts are sequences of labels and dots, so that str.endswith is a       *)
(* computation on the text of the host and not on its structure.           *)
(***************************************************************************)
URS == <<"urs", ".", "earthdata", ".", "nasa", ".", "gov">>
ASF == <<"auth", ".", "asf", ".", "alaska", ".", "edu">>

EDL_HOSTS == {URS, ASF}

\* The hosts a URL of the model names; <<>> is urlparse(...).hostname or "".
Hosts ==
    { URS,
      ASF,
      <<"sso", ".">> \o URS,
      <<"evilurs", ".", "earthdata", ".", "nasa", ".", "gov">>,
      <<"s1qc", ".", "asf", ".", "alaska", ".", "edu">>,
      ASF \o <<".", "evil", ".", "com">>,
      <<>> }

Paths == {"/aux_poeorb/", "/oauth"}

Urls == [host : Hosts, path : Paths]

\* str.endswith
endswith(s, suffix) ==
    /\ Len(s) >= Len(suffix)
    /\ SubSeq(s, Len(s) - Len(suffix) + 1, Len(s)) = suffix

\* str.startswith
startswith(s, prefix) ==
    /\ Len(s) >= Len(prefix)
    /\ SubSeq(s, 1, Len(prefix)) = prefix

\* same_origin with the match taken at the wrong end of the host
same_origin_prefix(host, hostset) ==
    \E h \in hostset : h = host \/ startswith(host, h \o <<".">>)

same_origin(host, hostset) ==
    \E h \in hostset : h = host \/ endswith(host, <<".">> \o h)

\* Python truthiness of an optional string
Truthy(x) == x \notin {None, ""}

\* "no auth" (Python None) in the place of an HTTPBasicAuth object
NoAuth == <<>>

\* auth = HTTPBasicAuth(username, password) if (username and password) else None
HTTPBasicAuth(u, p) == IF Truthy(u) /\ Truthy(p) THEN <<u, p>> ELSE NoAuth

max_hops == 15

RedirectCodes == {301, 302, 303, 307, 308}

\* The status codes a server of the model answers with.
Statuses == {200, 204, 206, 300, 301, 302, 303, 304, 307, 308, 401, 403, 404, 500}

\* The Location header: absent, empty, a relative reference or an absolute URL.
Locations ==
    [kind : {"absent", "empty"}, host : {<<>>}, path : {""}]
    \cup [kind : {"relative"}, host : {<<>>}, path : Paths]
    \cup [kind : {"absolute"}, host : Hosts, path : {"/oauth"}]

NoLocation == [kind |-> "absent", host |-> <<>>, path |-> ""]

\* The code reads the Location header of a redirect response only.
Responses ==
    [status : RedirectCodes, loc : Locations]
    \cup [status : Statuses \ RedirectCodes, loc : {NoLocation}]

\* "if not loc": the header is absent or empty
NotLoc(loc) == loc.kind \in {"absent", "empty"}

\* requests.Response.raise_for_status raises for 4xx and 5xx only.
raise_for_status(status) == status >= 400 /\ status < 600

\* urllib.parse.urljoin(base, url); it starts with "if not url: return base"
urljoin(base, loc) ==
    IF NotLoc(loc) THEN base
    ELSE IF loc.kind = "relative" THEN [host |-> base.host, path |-> loc.path]
    ELSE [host |-> loc.host, path |-> loc.path]

\* Lines 94-107 and 116-129: what one response does to the loop.
\* "return", "continue" (with the next URL), "raise", or "fall" when
\* raise_for_status returns and control falls to the end of the loop body.
Dispatch(cur, r) ==
    IF r.status \in {200, 206} THEN [op |-> "return", url |-> cur]
    ELSE IF r.status \in RedirectCodes THEN
        IF NotLoc(r.loc) /\ raise_for_status(r.status)
        THEN [op |-> "raise", url |-> cur]
        ELSE [op |-> "continue", url |-> urljoin(cur, r.loc)]
    ELSE IF raise_for_status(r.status) THEN [op |-> "raise", url |-> cur]
    ELSE [op |-> "fall", url |-> cur]

\* Line 89 with credentials held back until a host asks for them
UseAuthOnChallenge(host, auth) == NoAuth

\* Line 89: use_auth = auth if same_origin(host, EDL_HOSTS) else None
UseAuth(host, auth) == IF same_origin(host, EDL_HOSTS) THEN auth ELSE NoAuth

\* Line 110: the condition of the retry with credentials
RetryCond(r, host, use_auth, auth) ==
    /\ r.status = 401
    /\ same_origin(host, EDL_HOSTS)
    /\ use_auth = NoAuth
    /\ auth # NoAuth

(***************************************************************************)
(* The remote directory and the destination directory.                     *)
(***************************************************************************)
MaxFiles == 2          \* files of the remote directory
MaxRuns == 2           \* invocations of main in a behaviour
MaxElapsed == 2        \* ticks that pass between two readings of the clock
TicksPerSecond == 2    \* resolution of the clock of the model

Names == 1 .. MaxFiles

\* os.path.exists is False
Absent == -1

\* Python None in the place of an integer
Unknown == -1

\* The body of remote file f is f bytes long.
BodySize(f) == f

\* The Last-Modified time of remote file f, in epoch seconds.
LastModified(f) == 100 + f

NoFile == [size |-> Absent, mtime |-> Unknown]

NoEntry == [present |-> FALSE, size |-> Unknown, last_modified |-> Unknown, url |-> 0]

NoFiles == [f \in Names |-> NoEntry]

\* urljoin(base_url, href), line 152: one URL per name
UrlOf(f) == f

\* An entry left by an earlier invocation, when the remote files were empty.
OldEntry(f) == [present |-> TRUE, size |-> 0, last_modified |-> 1, url |-> UrlOf(f)]

\* int(time.time())
EpochSeconds(t) == t \div TicksPerSecond

\* load_manifest followed by manifest.setdefault("files", {}), lines 228-236, 313-314
load_manifest(d) ==
    IF d.state = "ok"
    THEN [files |-> d.files, last_sync |-> d.last_sync]
    ELSE [files |-> NoFiles, last_sync |-> Unknown]

\* save_manifest, lines 238-242
save_manifest(data) ==
    [state |-> "ok", files |-> data.files, last_sync |-> data.last_sync]

\* needs_download that downloads again when the size is unknown
needs_download_unknown(lf, expected_size) ==
    IF lf.size = Absent THEN TRUE
    ELSE IF expected_size = Unknown THEN TRUE
    ELSE lf.size # expected_size

\* needs_download with "<" in the place of "!="
needs_download_smaller(lf, expected_size) ==
    IF lf.size = Absent THEN TRUE
    ELSE IF expected_size = Unknown THEN FALSE
    ELSE lf.size < expected_size

\* needs_download, lines 246-255; lf is the file at local_path
needs_download(lf, expected_size) ==
    IF lf.size = Absent THEN TRUE
    ELSE IF expected_size = Unknown THEN FALSE
    ELSE lf.size # expected_size

\* set_mtime, lines 257-263
set_mtime(lf, epoch) ==
    IF epoch = Unknown THEN lf ELSE [lf EXCEPT !.mtime = epoch]

\* sorted(set(items)), line 157: the names of a set in ascending order
RECURSIVE sorted(_)
sorted(S) ==
    IF S = {} THEN <<>>
    ELSE LET m == CHOOSE x \in S : \A y \in S : x <= y
         IN <<m>> \o sorted(S \ {m})

(***************************************************************************)
(* probe_size_mtime, lines 159-223.  A header is NoHeader when the         *)
(* response does not have it (or has it empty), BadHeader when its value   *)
(* does not parse, and the parsed value otherwise.                         *)
(***************************************************************************)
MaxSize == 2

NoHeader == -1

BadHeader == -2

\* Values of Content-Range and Content-Length: the total or length parsed
Sizes == {NoHeader, BadHeader} \cup (0 .. MaxSize)

\* Values of Last-Modified: the epoch seconds it parses to
Dates(d) == {NoHeader, BadHeader, d}

\* probe_size_mtime taking the Content-Length of the ranged response as it is
probe_info_any_length(cr, cl, lm, cl2, lm2) ==
    LET size1 == IF cr >= 0 THEN cr ELSE IF cl >= 0 THEN cl ELSE Unknown
        date1 == IF lm >= 0 THEN lm ELSE Unknown
        again == size1 = Unknown \/ date1 = Unknown
    IN [content_length |-> IF size1 # Unknown THEN size1
                           ELSE IF again /\ cl2 >= 0 THEN cl2 ELSE Unknown,
        last_modified  |-> IF date1 # Unknown THEN date1
                           ELSE IF again /\ lm2 >= 0 THEN lm2 ELSE Unknown,
        gets           |-> IF again THEN 2 ELSE 1]

\* probe_size_mtime, lines 164-223, on the headers cr, cl, lm of the ranged
\* response and cl2, lm2 of the plain response
probe_info(cr, cl, lm, cl2, lm2) ==
    LET size1 == IF cr >= 0 THEN cr ELSE IF cl > 1 THEN cl ELSE Unknown
        date1 == IF lm >= 0 THEN lm ELSE Unknown
        again == size1 = Unknown \/ date1 = Unknown
    IN [content_length |-> IF size1 # Unknown THEN size1
                           ELSE IF again /\ cl2 >= 0 THEN cl2 ELSE Unknown,
        last_modified  |-> IF date1 # Unknown THEN date1
                           ELSE IF again /\ lm2 >= 0 THEN lm2 ELSE Unknown,
        gets           |-> IF again THEN 2 ELSE 1]

NoHeaders == [cr |-> NoHeader, cl |-> NoHeader, lm |-> NoHeader,
              cl2 |-> NoHeader, lm2 |-> NoHeader]

ProbeIdle ==
    /\ hdr = NoHeaders
    /\ pinfo = [content_length |-> Unknown, last_modified |-> Unknown]
    /\ pgets = 0
    /\ ppc = "idle"

\* probe_size_mtime of f against a server that honours the range and reports
\* the size of f in Content-Range, or one that sends no length at all
probe_size_mtime(f, known) ==
    LET p == probe_info(IF known THEN BodySize(f) ELSE NoHeader,
                        IF known THEN 1 ELSE NoHeader,
                        LastModified(f), NoHeader, LastModified(f))
    IN [content_length |-> p.content_length, last_modified |-> p.last_modified]

NoInfo == [content_length |-> Unknown, last_modified |-> Unknown]

\* download_file without the check of line 283
download_file_unchecked(f, dest, tmp, expected_size, fetched, n, broke, has_lm, t) ==
    IF ~fetched
    THEN [error |-> "fetch", dest |-> dest, tmp |-> tmp, lm |-> Unknown]
    ELSE IF broke
    THEN [error |-> "stream", dest |-> dest, tmp |-> n, lm |-> Unknown]
    ELSE [error |-> "none",
          dest |-> [size |-> n, mtime |-> EpochSeconds(t)],
          tmp |-> Absent,
          lm |-> IF has_lm THEN LastModified(f) ELSE Unknown]

\* download_file streaming to dest_path itself, with no temporary file
download_file_in_place(f, dest, tmp, expected_size, fetched, n, broke, has_lm, t) ==
    IF ~fetched
    THEN [error |-> "fetch", dest |-> dest, tmp |-> tmp, lm |-> Unknown]
    ELSE IF broke
    THEN [error |-> "stream", dest |-> [size |-> n, mtime |-> EpochSeconds(t)],
          tmp |-> tmp, lm |-> Unknown]
    ELSE IF expected_size # Unknown /\ n # expected_size
    THEN [error |-> "incomplete", dest |-> NoFile, tmp |-> tmp, lm |-> Unknown]
    ELSE [error |-> "none",
          dest |-> [size |-> n, mtime |-> EpochSeconds(t)],
          tmp |-> tmp,
          lm |-> IF has_lm THEN LastModified(f) ELSE Unknown]

\* download_file, lines 266-293.  dest and tmp are the files at dest_path and
\* dest_path + ".part"; fetched: get_with_edl returned a response; n: bytes the
\* stream delivered; broke: iter_content raised after them; has_lm: the
\* response has a Last-Modified header; t: the clock.  error is "none" when
\* the call returns, else the exception it raises: "fetch" from get_with_edl,
\* "stream" from iter_content, "incomplete" from line 288.
download_file(f, dest, tmp, expected_size, fetched, n, broke, has_lm, t) ==
    IF ~fetched
    THEN [error |-> "fetch", dest |-> dest, tmp |-> tmp, lm |-> Unknown]
    ELSE IF broke
    THEN [error |-> "stream", dest |-> dest, tmp |-> n, lm |-> Unknown]
    ELSE IF expected_size # Unknown /\ n # expected_size
    THEN [error |-> "incomplete", dest |-> dest, tmp |-> Absent, lm |-> Unknown]
    ELSE [error |-> "none",
          dest |-> [size |-> n, mtime |-> EpochSeconds(t)],
          tmp |-> Absent,
          lm |-> IF has_lm THEN LastModified(f) ELSE Unknown]

\* The entry of lines 368-372 without the size
ManifestEntrySizeless(f, inf, lm_epoch) ==
    [present |-> TRUE, size |-> Unknown, last_modified |-> lm_epoch, url |-> UrlOf(f)]

\* Lines 368-372: the manifest entry of a downloaded file
ManifestEntry(f, inf, lm_epoch) ==
    [present |-> TRUE,
     size |-> inf.content_length,
     last_modified |-> lm_epoch,
     url |-> UrlOf(f)]

\* The loop of line 323 that stops probing at the first planned file
AfterProbeEager(i, n) == "planned"

\* for name, url in items, line 323: on to the next item, or out of the loop
AfterProbe(i, n) == IF i = n THEN "planned" ELSE "probing"

\* The loop of line 348 without the try of line 354: an error leaves main
AfterAttemptUncaught(error, i, n) ==
    IF error # "none" THEN "crashed"
    ELSE IF i = n THEN "finish" ELSE "downloading"

\* for name, url, info in to_download, lines 348 and 375-376: the except
\* clause reports the error and the loop goes on; after the last, line 378
AfterAttempt(error, i, n) == IF i = n THEN "finish" ELSE "downloading"

\* Lines 368-372 outside the try: an entry is written for a failed file too
RecordDownloadAlways(m, f, error, entry) == [m EXCEPT !.files[f] = entry]

\* Lines 354-376: the entry of f is written when download_file returned, and
\* nothing is when it raised
RecordDownload(m, f, error, entry) ==
    IF error = "none" THEN [m EXCEPT !.files[f] = entry] ELSE m

NoDownload == [f |-> 0, fetched |-> FALSE, n |-> 0, broke |-> FALSE, error |-> "none"]

NoDisk == [state |-> "absent", files |-> NoFiles, last_sync |-> Unknown]

NoPrev == [ended |-> "none", allOk |-> FALSE]

(***************************************************************************)
(* list_remote_files, lines 136-157.  A string is the sequence of the      *)
(* code points of its characters, so that Python's order on strings is the *)
(* lexicographic order on sequences.                                       *)
(***************************************************************************)
MaxLinks == 3

\* "../", "/", "A/", "A.EOF", "B.EOF", "BA.EOF", "?C=N"
Hrefs == { <<46, 46, 47>>, <<47>>, <<65, 47>>,
           <<65, 46, 69, 79, 70>>, <<66, 46, 69, 79, 70>>,
           <<66, 65, 46, 69, 79, 70>>, <<63, 67, 61, 78>> }

\* Compiled patterns: DEFAULT_PATTERN r".*\.EOF$" (line 26), which re.match
\* satisfies on the names that end in ".EOF", and the literal pattern "A",
\* which re.match satisfies on the names that begin with "A".
Patterns == { [kind |-> "ends", lit |-> <<46, 69, 79, 70>>],
              [kind |-> "begins", lit |-> <<65>>] }

\* rx.match(name), line 153: a match anchored at the start of name
rx_match(rx, name) ==
    IF rx.kind = "ends" THEN endswith(name, rx.lit) ELSE startswith(name, rx.lit)

\* urljoin(base_url, href), line 152, for the base "d/" and a relative href
url_of_href(href) == <<100, 47>> \o href

\* Python's < on str
RECURSIVE str_less(_, _)
str_less(a, b) ==
    IF a = <<>> THEN b # <<>>
    ELSE IF b = <<>> THEN FALSE
    ELSE IF a[1] # b[1] THEN a[1] < b[1]
    ELSE str_less(Tail(a), Tail(b))

\* sorted(..., key=lambda x: x[0]), line 157, of a set of (name, url)
RECURSIVE sorted_by_name(_)
sorted_by_name(S) ==
    IF S = {} THEN <<>>
    ELSE LET m == CHOOSE x \in S : \A y \in S : ~str_less(y.name, x.name)
         IN <<m>> \o sorted_by_name(S \ {m})

\* The loop of lines 146-154: the (name, url) appended to items, in order
items_of(ls, rx) ==
    LET keep(href) == /\ href \notin {<<46, 46, 47>>, <<47>>}
                      /\ ~endswith(href, <<47>>)
                      /\ rx_match(rx, href)
        kept == SelectSeq(ls, keep)
    IN [i \in 1 .. Len(kept) |-> [name |-> kept[i], url |-> url_of_href(kept[i])]]

\* Insertion of an entry at its place in a list sorted by name
RECURSIVE insert_by_name(_, _)
insert_by_name(e, l) ==
    IF l = <<>> THEN <<e>>
    ELSE IF str_less(e.name, l[1].name) THEN <<e>> \o l
    ELSE <<l[1]>> \o insert_by_name(e, Tail(l))

\* sorted(items, key=...) of a list, which keeps equal elements
RECURSIVE sorted_list(_)
sorted_list(l) ==
    IF l = <<>> THEN <<>> ELSE insert_by_name(l[1], sorted_list(Tail(l)))

\* list_remote_files without set() at line 157
list_remote_files_no_set(ls, rx) == sorted_list(items_of(ls, rx))

\* list_remote_files, lines 145-157, on the links of the page
list_remote_files(ls, rx) ==
    LET its == items_of(ls, rx)
    IN sorted_by_name({its[i] : i \in 1 .. Len(its)})

ListIdle ==
    /\ links = <<>>
    /\ pattern = [kind |-> "ends", lit |-> <<46, 69, 79, 70>>]
    /\ entries = <<>>
    /\ lpc = "idle"

FetchIdle ==
    /\ username = None
    /\ password = None
    /\ current = [host |-> <<>>, path |-> "/oauth"]
    /\ hops = 0
    /\ fpc = "idle"
    /\ nreq = 0
    /\ lastStatus = 0
    /\ lastNoLoc = FALSE
    /\ credHosts = {}

RunIdle ==
    /\ listing = {}
    /\ sizeKnown = [f \in Names |-> FALSE]
    /\ local = [f \in Names |-> NoFile]
    /\ part = [f \in Names |-> Absent]
    /\ disk = NoDisk
    /\ mpc = "idle"
    /\ run = 0
    /\ dry_run = FALSE
    /\ manifest = [files |-> NoFiles, last_sync |-> Unknown]
    /\ items = <<>>
    /\ k = 0
    /\ info = [f \in Names |-> NoInfo]
    /\ to_download = <<>>
    /\ outcome = [f \in Names |-> "none"]
    /\ now = 0
    /\ startTime = 0
    /\ before = [local |-> [f \in Names |-> NoFile], disk |-> NoDisk]
    /\ dl = NoDownload
    /\ prevRun = NoPrev
    /\ attempts = [f \in Names |-> 0]
    /\ saves = 0

FetchInit ==
    /\ username \in {None, "", "alice"}
    /\ password \in {None, "secret"}
    /\ current \in Urls
    /\ hops = 0
    /\ fpc = "loop"
    /\ nreq = 0
    /\ lastStatus = 0
    /\ lastNoLoc = FALSE
    /\ credHosts = {}
    /\ RunIdle
    /\ ListIdle
    /\ ProbeIdle

\* for _ in range(max_hops), line 87, with an unbounded loop in its place
LoopRunsForever(h) == TRUE

\* for _ in range(max_hops), line 87: the loop has an iteration left
LoopRuns(h) == h < max_hops

\* One iteration of "for _ in range(max_hops)", lines 87-131: the request of
\* line 91, the handling of its response and, inside it, the retry of line 115.
Hop ==
    /\ fpc = "loop"
    /\ LoopRuns(hops)
    /\ LET host     == current.host
           auth     == HTTPBasicAuth(username, password)
           use_auth == UseAuth(host, auth)
       IN \E r \in Responses :
            LET retry == RetryCond(r, host, use_auth, auth)
            IN \E r2 \in (IF retry THEN Responses ELSE {r}) :
                 LET last == IF retry THEN r2 ELSE r
                     d    == Dispatch(current, last)
                 IN /\ nreq' = nreq + (IF retry THEN 2 ELSE 1)
                    /\ credHosts' = credHosts \cup
                           (IF use_auth # NoAuth \/ retry THEN {host} ELSE {})
                    /\ lastStatus' = last.status
                    /\ lastNoLoc' = (last.status \in RedirectCodes /\ NotLoc(last.loc))
                    /\ hops' = hops + 1
                    /\ current' = d.url
                    /\ fpc' = CASE d.op = "return"   -> "returned"
                                [] d.op = "raise"    -> "http_error"
                                [] d.op = "continue" -> "loop"
                                [] d.op = "fall"     -> "loop"
                    /\ UNCHANGED <<username, password, rvars, lvars, pvars>>

\* Line 133: the loop ran out, raise RuntimeError("Exceeded maximum EDL redirect hops")
Exceeded ==
    /\ fpc = "loop"
    /\ ~LoopRuns(hops)
    /\ fpc' = "too_many"
    /\ UNCHANGED <<username, password, current, hops, nreq, lastStatus, lastNoLoc,
                   credHosts, rvars, lvars, pvars>>

FetchNext == Hop \/ Exceeded

FetchSpec == FetchInit /\ [][FetchNext]_vars

FairFetchSpec == FetchSpec /\ WF_vars(FetchNext)

(***************************************************************************)
(* main, lines 296-380.                                                    *)
(***************************************************************************)
LocalFiles == {NoFile} \cup [size : 0 .. MaxFiles + 1, mtime : {1}]

RunInit ==
    /\ listing \in {1 .. n : n \in 0 .. MaxFiles}
    /\ sizeKnown \in [Names -> BOOLEAN]
    /\ local \in {l \in [Names -> LocalFiles] :
                    \A f \in Names :
                        l[f].size \in {Absent, BodySize(f) - 1, BodySize(f),
                                      BodySize(f) + 1}}
    /\ part = [f \in Names |-> Absent]
    /\ disk \in {NoDisk,
                 [state |-> "malformed", files |-> NoFiles, last_sync |-> Unknown],
                 [state |-> "ok", files |-> [f \in Names |-> OldEntry(f)],
                  last_sync |-> 0]}
    /\ mpc = "start"
    /\ run = 1
    /\ dry_run \in BOOLEAN
    /\ manifest = [files |-> NoFiles, last_sync |-> Unknown]
    /\ items = <<>>
    /\ k = 0
    /\ info = [f \in Names |-> NoInfo]
    /\ to_download = <<>>
    /\ outcome = [f \in Names |-> "none"]
    /\ now = TicksPerSecond
    /\ startTime = now
    /\ before = [local |-> local, disk |-> disk]
    /\ dl = NoDownload
    /\ prevRun = NoPrev
    /\ attempts = [f \in Names |-> 0]
    /\ saves = 0
    /\ FetchIdle
    /\ ListIdle
    /\ ProbeIdle

\* Lines 307-320: load the manifest, list the remote directory.
\* listed: list_remote_files returned (it raises when get_with_edl does).
Start ==
    /\ mpc = "start"
    /\ \E listed \in BOOLEAN :
         /\ manifest' = load_manifest(disk)
         /\ items' = IF listed THEN sorted(listing) ELSE <<>>
         /\ mpc' = IF ~listed THEN "crashed"
                   ELSE IF sorted(listing) = <<>> THEN "done"
                   ELSE "probing"
         /\ k' = 1
    /\ UNCHANGED <<listing, sizeKnown, local, part, disk, run, dry_run, info,
                   to_download, outcome, now, startTime, before, dl, prevRun,
                   attempts, saves, fvars, lvars, pvars>>

\* Lines 323-329: one iteration of the planning loop.
\* probed: probe_size_mtime returned (it raises when get_with_edl does, and
\* the call of line 324 is outside any try).
ProbeOne ==
    /\ mpc = "probing"
    /\ \E probed \in BOOLEAN :
         LET f   == items[k]
             inf == probe_size_mtime(f, sizeKnown[f])
         IN IF ~probed
            THEN /\ mpc' = "crashed"
                 /\ UNCHANGED <<info, to_download, k>>
            ELSE /\ info' = [info EXCEPT ![f] = inf]
                 /\ to_download' =
                        IF needs_download(local[f], inf.content_length)
                        THEN Append(to_download, f)
                        ELSE to_download
                 /\ k' = k + 1
                 /\ mpc' = AfterProbe(k, Len(items))
    /\ UNCHANGED <<listing, sizeKnown, local, part, disk, run, dry_run, manifest,
                   items, outcome, now, startTime, before, dl, prevRun,
                   attempts, saves, fvars, lvars, pvars>>

\* Lines 331-346: nothing to download, or a dry run, or on to the downloads.
Plan ==
    /\ mpc = "planned"
    /\ IF to_download = <<>>
       THEN \E d \in 1 .. MaxElapsed :
              /\ now' = now + d
              /\ manifest' = [manifest EXCEPT !.last_sync = EpochSeconds(now + d)]
              /\ disk' = save_manifest(manifest')
              /\ saves' = saves + 1
              /\ mpc' = "done"
              /\ k' = k
       ELSE /\ mpc' = IF dry_run THEN "done" ELSE "downloading"
            /\ k' = 1
            /\ UNCHANGED <<now, manifest, disk, saves>>
    /\ UNCHANGED <<listing, sizeKnown, local, part, run, dry_run, items, info,
                   to_download, outcome, startTime, before, dl, prevRun,
                   attempts, fvars, lvars, pvars>>

\* Lines 348-376: one iteration of the download loop.
DownloadOne ==
    /\ mpc = "downloading"
    /\ LET f == to_download[k]
       IN \E fetched \in BOOLEAN, broke \in BOOLEAN, has_lm \in BOOLEAN,
             n \in 0 .. BodySize(f) :
            LET res == download_file(f, local[f], part[f], info[f].content_length,
                                     fetched, n, broke, has_lm, now)
                lm_epoch == IF res.lm # Unknown THEN res.lm
                            ELSE info[f].last_modified
            IN /\ part' = [part EXCEPT ![f] = res.tmp]
               /\ dl' = [f |-> f, fetched |-> fetched, n |-> n, broke |-> broke,
                         error |-> res.error]
               /\ attempts' = [attempts EXCEPT ![f] = attempts[f] + 1]
               /\ manifest' = RecordDownload(manifest, f, res.error,
                                              ManifestEntry(f, info[f], lm_epoch))
               /\ IF res.error # "none"
                  THEN /\ local' = [local EXCEPT ![f] = res.dest]
                       /\ outcome' = [outcome EXCEPT ![f] = "failed"]
                  ELSE /\ local' = [local EXCEPT ![f] = set_mtime(res.dest, lm_epoch)]
                       /\ outcome' = [outcome EXCEPT ![f] = "complete"]
               /\ k' = k + 1
               /\ mpc' = AfterAttempt(res.error, k, Len(to_download))
    /\ UNCHANGED <<listing, sizeKnown, disk, run, dry_run, items, info,
                   to_download, now, startTime, before, prevRun, saves, fvars, lvars, pvars>>

\* Lines 378-380 without the call of save_manifest
FinishUnsaved ==
    /\ mpc = "finish"
    /\ \E d \in 1 .. MaxElapsed :
         /\ now' = now + d
         /\ manifest' = [manifest EXCEPT !.last_sync = EpochSeconds(now + d)]
    /\ mpc' = "done"
    /\ UNCHANGED <<listing, sizeKnown, local, part, disk, run, dry_run, items, k,
                   info, to_download, outcome, startTime, before, dl, prevRun,
                   attempts, saves, fvars, lvars, pvars>>

\* Lines 378-380: stamp and save the manifest.
Finish ==
    /\ mpc = "finish"
    /\ \E d \in 1 .. MaxElapsed :
         /\ now' = now + d
         /\ manifest' = [manifest EXCEPT !.last_sync = EpochSeconds(now + d)]
         /\ disk' = save_manifest(manifest')
    /\ saves' = saves + 1
    /\ mpc' = "done"
    /\ UNCHANGED <<listing, sizeKnown, local, part, run, dry_run, items, k, info,
                   to_download, outcome, startTime, before, dl, prevRun,
                   attempts, fvars, lvars, pvars>>

\* The operator starts main again, against the same remote directory, at once
\* after a sync that completed with every planned download succeeding.  (An
\* invocation that crashed, was a dry run or had a failure leaves the files
\* of a first invocation behind.)
NextRun ==
    /\ mpc = "done"
    /\ ~dry_run
    /\ \A i \in 1 .. Len(to_download) : outcome[to_download[i]] = "complete"
    /\ run < MaxRuns
    /\ run' = run + 1
    /\ mpc' = "start"
    /\ dry_run' \in BOOLEAN
    /\ manifest' = [files |-> NoFiles, last_sync |-> Unknown]
    /\ items' = <<>>
    /\ k' = 0
    /\ info' = [f \in Names |-> NoInfo]
    /\ to_download' = <<>>
    /\ outcome' = [f \in Names |-> "none"]
    /\ now' = now + 1
    /\ startTime' = now + 1
    /\ before' = [local |-> local, disk |-> disk]
    /\ dl' = NoDownload
    /\ prevRun' = [ended |-> mpc, allOk |-> TRUE]
    /\ attempts' = [f \in Names |-> 0]
    /\ saves' = 0
    /\ UNCHANGED <<listing, sizeKnown, local, part, disk, fvars, lvars, pvars>>

RunNext == Start \/ ProbeOne \/ Plan \/ DownloadOne \/ Finish \/ NextRun

RunSpec == RunInit /\ [][RunNext]_vars

(***************************************************************************)
(* One call of list_remote_files on a page of at most MaxLinks links.      *)
(***************************************************************************)
ListInit ==
    /\ links \in UNION {[1 .. n -> Hrefs] : n \in 0 .. MaxLinks}
    /\ pattern \in Patterns
    /\ entries = <<>>
    /\ lpc = "call"
    /\ FetchIdle
    /\ RunIdle
    /\ ProbeIdle

ListRemote ==
    /\ lpc = "call"
    /\ entries' = list_remote_files(links, pattern)
    /\ lpc' = "returned"
    /\ UNCHANGED <<links, pattern, fvars, rvars, pvars>>

ListNext == ListRemote

ListSpec == ListInit /\ [][ListNext]_vars

(***************************************************************************)
(* One call of probe_size_mtime against the headers of two responses.      *)
(***************************************************************************)
ProbeInit ==
    /\ hdr \in [cr : Sizes, cl : Sizes, lm : Dates(7), cl2 : Sizes, lm2 : Dates(8)]
    /\ pinfo = [content_length |-> Unknown, last_modified |-> Unknown]
    /\ pgets = 0
    /\ ppc = "call"
    /\ FetchIdle
    /\ RunIdle
    /\ ListIdle

Probe ==
    /\ ppc = "call"
    /\ LET p == probe_info(hdr.cr, hdr.cl, hdr.lm, hdr.cl2, hdr.lm2)
       IN /\ pinfo' = [content_length |-> p.content_length,
                       last_modified |-> p.last_modified]
          /\ pgets' = p.gets
    /\ ppc' = "returned"
    /\ UNCHANGED <<hdr, fvars, rvars, lvars>>

ProbeNext == Probe

ProbeSpec == ProbeInit /\ [][ProbeNext]_vars


(***************************************************************************)
(* Properties of get_with_edl, checked under FetchSpec and FairFetchSpec.  *)
(***************************************************************************)

\* host is an entry of EDL_HOSTS, or the labels after one of its dots are one
IsEdlHostOrSubdomain(host) ==
    \E e \in EDL_HOSTS :
        \/ host = e
        \/ \E i \in 1 .. Len(host) :
              host[i] = "." /\ SubSeq(host, i + 1, Len(host)) = e

\* C1: every request that carries the Basic credentials is addressed to an
\* entry of EDL_HOSTS or to a subdomain of one, wherever it is in the chain.
CredentialsOnlyToEdlHosts ==
    \A h \in credHosts : IsEdlHostOrSubdomain(h)

\* A chain that sent the credentials to a subdomain of an EDL host and then
\* went on, without them, to a host outside the allow-list that answered 200.
CredentialsWithheldAfterEdlHop ==
    /\ fpc = "returned"
    /\ hops >= 3
    /\ ~IsEdlHostOrSubdomain(current.host)
    /\ \E h \in credHosts : h \notin EDL_HOSTS

\* C8: get_with_edl terminates: it runs at most max_hops iterations, and a
\* chain without a 200/206 in that bound ends with the "too many redirects"
\* error.
TerminatesWithinMaxHops ==
    /\ [](hops <= max_hops)
    /\ [](fpc = "too_many" => hops = max_hops /\ lastStatus \notin {200, 206})
    /\ <>(fpc \in {"returned", "http_error", "too_many"})

\* A chain of max_hops redirects that ended with the "too many redirects" error.
TooManyRedirects ==
    /\ fpc = "too_many"
    /\ nreq = max_hops
    /\ lastStatus \in RedirectCodes
    /\ ~lastNoLoc

\* C9: a redirect response without a Location header ends the call with an
\* error at that hop; no further request follows it.
MissingLocationFailsAtHop ==
    lastNoLoc => fpc = "http_error"

\* C10: a response that is not 2xx, not a followed redirect and not a 401
\* taken by the credential retry raises an HTTP error at its hop, and only
\* 200 or 206 ends the call successfully.
OtherStatusRaisesAtHop ==
    /\ (/\ nreq > 0
        /\ lastStatus \notin 200 .. 299
        /\ lastStatus \notin RedirectCodes)
       => fpc = "http_error"
    /\ fpc = "returned" => lastStatus \in {200, 206}

(***************************************************************************)
(* Properties of the planner, the downloader and main, checked under       *)
(* RunSpec.                                                                *)
(***************************************************************************)

Planned(f) == \E i \in 1 .. Len(to_download) : to_download[i] = f

\* The items probed so far by the loop of line 323.
Probed == IF mpc = "probing" THEN {items[i] : i \in 1 .. k - 1}
          ELSE IF mpc = "planned" THEN {items[i] : i \in 1 .. Len(items)}
          ELSE {}

\* C3: needs_download returns false if and only if the local file exists and
\* the expected size is unknown or equal to the local size, whatever the
\* modification time of the file.
SkippedIffPresentAndSizeAgrees ==
    \A f \in Probed :
        ~Planned(f) <=>
            /\ local[f].size # Absent
            /\ \/ info[f].content_length = Unknown
               \/ local[f].size = info[f].content_length

\* A plan that skips a file of unknown remote size whose local copy is short,
\* and downloads a file whose local copy is longer than the remote file.
PlanWithSkipAndMismatch ==
    /\ mpc = "planned"
    /\ \E f \in Probed :
          /\ ~Planned(f)
          /\ info[f].content_length = Unknown
          /\ local[f].size = BodySize(f) - 1
    /\ \E f \in Probed :
          /\ Planned(f)
          /\ info[f].content_length # Unknown
          /\ local[f].size > info[f].content_length

\* The last call of download_file got a stream that ended after a number of
\* bytes other than the known expected size.
StreamEndedShort ==
    /\ dl.f # 0
    /\ dl.fetched
    /\ ~dl.broke
    /\ info[dl.f].content_length # Unknown
    /\ dl.n # info[dl.f].content_length

\* C4: when the stream ends after a number of bytes other than the known
\* expected size, the ".part" file is removed, the call raises the
\* incomplete-download error and the destination is as it was before.
ShortStreamLeavesDestination ==
    StreamEndedShort =>
        /\ part[dl.f] = Absent
        /\ dl.error = "incomplete"
        /\ outcome[dl.f] = "failed"
        /\ local[dl.f] = before.local[dl.f]

\* A short stream for a file that is absent locally, and one for a file that
\* has a local copy of another size.
ShortStreamSeen ==
    /\ StreamEndedShort
    /\ dl.n < info[dl.f].content_length
    /\ dl.error = "incomplete"
    /\ \/ before.local[dl.f] = NoFile
       \/ before.local[dl.f].size > BodySize(dl.f)

\* The destination of f is as the invocation found it, or holds the whole
\* body of the remote file.
UntouchedOrComplete(f) ==
    \/ local[f] = before.local[f]
    \/ local[f].size = BodySize(f)

\* C5 as stated: at every point of every run the destination of a file is
\* untouched or holds the complete body, also when the remote size could not
\* be determined.
NoPartialAtDestination ==
    \A f \in Names : UntouchedOrComplete(f)

\* C5 as amended: the destination of a file whose expected size is known is
\* untouched or holds the complete body, at every point of every run.
NoPartialAtDestinationWhenSizeKnown ==
    \A f \in Names :
        info[f].content_length # Unknown => UntouchedOrComplete(f)

\* A download of a file of known size whose stream raised: the bytes are in
\* the ".part" file and the destination is untouched.
BrokenStreamLeftPart ==
    /\ dl.f # 0
    /\ dl.error = "stream"
    /\ info[dl.f].content_length # Unknown
    /\ part[dl.f] # Absent
    /\ part[dl.f] < BodySize(dl.f)
    /\ local[dl.f] = before.local[dl.f]

\* C6: after an invocation that completed with every planned download
\* succeeding, the next invocation against the unchanged remote plans no
\* download.
SecondRunPlansNothing ==
    (run >= 2 /\ prevRun.allOk) => to_download = <<>>

\* The plan of a second invocation after a first one that downloaded a file
\* of known size and a file of unknown size.
SecondRunPlanned ==
    /\ run = 2
    /\ prevRun.allOk
    /\ mpc = "planned"
    /\ items # <<>>
    /\ \E f \in Names : disk.files[f].present /\ disk.files[f].size = Unknown
    /\ \E f \in Names : disk.files[f].present /\ disk.files[f].size = BodySize(f)

\* An invocation that started with an empty manifest and a listing of files
\* that were all absent locally, and downloaded every one of them.
FullRunDone ==
    /\ mpc = "done"
    /\ listing # {}
    /\ load_manifest(before.disk).files = NoFiles
    /\ \A f \in listing : before.local[f] = NoFile
    /\ \A f \in listing : outcome[f] = "complete"

\* C7 as stated: after such a run, every file having arrived whole, the
\* manifest has exactly one entry per listed name, each with the correct size
\* of the file, and a last_sync greater than the start time of the run.
FullRunManifest ==
    (FullRunDone /\ \A f \in listing : local[f].size = BodySize(f)) =>
        /\ \A f \in Names : disk.files[f].present <=> f \in listing
        /\ \A f \in listing : disk.files[f].size = BodySize(f)
        /\ disk.last_sync * TicksPerSecond > startTime

\* C7 as amended: after such a run the manifest has exactly one entry per
\* listed name, each with the size the probe reported (the size of the file
\* when the server reports it, no size otherwise), and a last_sync in whole
\* seconds that is not before the second in which the run started.
FullRunManifestProbedSizes ==
    FullRunDone =>
        /\ \A f \in Names : disk.files[f].present <=> f \in listing
        /\ \A f \in listing :
              /\ disk.files[f].size = info[f].content_length
              /\ sizeKnown[f] =>
                    disk.files[f].size = BodySize(f) /\ local[f].size = BodySize(f)
              /\ disk.files[f].url = UrlOf(f)
        /\ disk = save_manifest(manifest)
        /\ disk.last_sync >= EpochSeconds(startTime)

\* A full run over all the files of the directory, one of them of unknown
\* size, that ended in the second in which it started.
FullRunSeen ==
    /\ FullRunDone
    /\ listing = Names
    /\ \E f \in listing : ~sizeKnown[f]
    /\ \E f \in listing : sizeKnown[f]
    /\ disk.last_sync = EpochSeconds(startTime)

\* The planned files the download loop of line 348 has been through.
Attempted == {f \in Names : attempts[f] > 0}

\* C11: in an invocation that reaches the download loop, each planned file
\* goes from pending to complete or failed by exactly one call of
\* download_file: no file is attempted twice, a failed file is not attempted
\* again, the files before the position of the loop have all had their
\* attempt whether or not an earlier one failed, and when the loop is over
\* every planned file is complete or failed.
EachPlannedFileAttemptedOnce ==
    /\ \A f \in Names :
          /\ attempts[f] <= 1
          /\ attempts[f] = 1 <=> outcome[f] \in {"complete", "failed"}
          /\ attempts[f] = 1 => Planned(f)
    /\ mpc = "downloading" =>
          /\ k \in 1 .. Len(to_download)
          /\ \A i \in 1 .. Len(to_download) :
                attempts[to_download[i]] = IF i < k THEN 1 ELSE 0
    /\ mpc = "crashed" => Attempted = {}
    /\ (mpc = "finish" \/ (mpc = "done" /\ ~dry_run)) =>
          \A f \in Names : Planned(f) => attempts[f] = 1

\* The loop is over, the first planned file failed and the last one, attempted
\* after it, is complete.
FailureThenLaterAttempt ==
    /\ mpc = "finish"
    /\ Len(to_download) >= 2
    /\ outcome[to_download[1]] = "failed"
    /\ outcome[to_download[Len(to_download)]] = "complete"

\* C12: an error on one file does not abort the run: main is never left by an
\* exception once the listing has returned items, whether the error comes up
\* in the probe of a file or in its download.
FileErrorDoesNotAbortRun ==
    mpc = "crashed" => items = <<>>

\* C13: a dry run downloads no file, leaves every destination file and every
\* temporary file as it was, and leaves the persisted manifest as it was,
\* whatever the listing and the local state.
DryRunWritesNothing ==
    dry_run =>
        /\ Attempted = {}
        /\ local = before.local
        /\ \A f \in Names : part[f] = Absent
        /\ disk = before.disk
        /\ saves = 0

\* The entries of the manifest file, as load_manifest reads them.
ManifestFiles(d) == load_manifest(d).files

\* C15: the entry of a file whose download did not succeed in this invocation
\* (skipped, unlisted or failed) is the same in the manifest in memory and in
\* the persisted manifest as it was in the persisted manifest at the start.
OnlySuccessfulDownloadsChangeManifest ==
    \A f \in Names :
        outcome[f] # "complete" =>
            /\ ManifestFiles(disk)[f] = ManifestFiles(before.disk)[f]
            /\ mpc # "start" => manifest.files[f] = ManifestFiles(before.disk)[f]

\* A run saved the manifest after a failed download of a file that had an
\* entry and a successful download of another file, whose entry changed.
FailedEntryKeptCompleteEntryWritten ==
    /\ mpc = "done"
    /\ saves = 1
    /\ \E f \in Names :
          /\ outcome[f] = "failed"
          /\ ManifestFiles(before.disk)[f] = OldEntry(f)
          /\ disk.files[f] = OldEntry(f)
    /\ \E f \in Names :
          /\ outcome[f] = "complete"
          /\ disk.files[f] # ManifestFiles(before.disk)[f]

\* C16: the phases are in order: a file is probed only after the listing
\* returned, in the order of the listing; a download is attempted only after
\* every item of the listing was probed; the downloads are attempted one at a
\* time in the order of the listing, the next one only after the one before
\* has ended as complete or failed.
PhasesInOrder ==
    /\ \A f \in Names : info[f] # NoInfo =>
          \E i \in 1 .. Len(items) :
             /\ items[i] = f
             /\ \A j \in 1 .. i : info[items[j]] # NoInfo
    /\ Attempted # {} => \A i \in 1 .. Len(items) : info[items[i]] # NoInfo
    /\ \A i, j \in 1 .. Len(to_download) :
          i < j =>
             /\ to_download[i] < to_download[j]
             /\ attempts[to_download[j]] > 0 =>
                   outcome[to_download[i]] \in {"complete", "failed"}
    /\ \A i, j \in 1 .. Len(items) : i < j => items[i] < items[j]

\* The second planned file is being downloaded after the first, every item
\* having been probed.
SecondDownloadAfterFirst ==
    /\ Len(to_download) >= 2
    /\ attempts[to_download[2]] = 1
    /\ Len(items) >= 2

\* C17: in a run that is not a dry run and plans a download, the manifest is
\* not saved before the loop is over, and is saved exactly once when the run
\* is done, every planned file having had its attempt.
ManifestSavedOnceAfterDownloads ==
    (~dry_run /\ to_download # <<>>) =>
        /\ mpc \in {"probing", "planned", "downloading", "finish", "crashed"} =>
              saves = 0 /\ disk = before.disk
        /\ mpc = "done" =>
              /\ saves = 1
              /\ disk = save_manifest(manifest)
              /\ \A f \in Names : Planned(f) => attempts[f] = 1

\* A run is done whose last planned download failed: the manifest was saved.
SavedAfterFailedLastDownload ==
    /\ mpc = "done"
    /\ ~dry_run
    /\ to_download # <<>>
    /\ outcome[to_download[Len(to_download)]] = "failed"
    /\ saves = 1

(***************************************************************************)
(* Properties of list_remote_files, checked under ListSpec.                *)
(***************************************************************************)
\* The hrefs of the page that the listing is to keep.
KeptHrefs ==
    {h \in {links[i] : i \in 1 .. Len(links)} :
        /\ h # <<46, 46, 47>>
        /\ h # <<47>>
        /\ h[Len(h)] # 47
        /\ rx_match(pattern, h)}

\* C14: list_remote_files returns exactly the entries whose href is not "../",
\* not "/", does not end in "/" and matches the pattern at its start, each
\* with the url of its href, in strictly ascending order of name: no
\* duplicates and at most one entry per name.
ListingFilteredUniqueSorted ==
    lpc = "returned" =>
        /\ {entries[i].name : i \in 1 .. Len(entries)} = KeptHrefs
        /\ \A i \in 1 .. Len(entries) : entries[i].url = url_of_href(entries[i].name)
        /\ \A i, j \in 1 .. Len(entries) :
              i < j => str_less(entries[i].name, entries[j].name)

\* A page that links the same file twice, with a smaller name in between, and
\* a directory: two entries are returned.
DuplicateAndUnsortedLinksListed ==
    /\ lpc = "returned"
    /\ Len(links) = 3
    /\ links[1] = links[3]
    /\ str_less(links[2], links[1])
    /\ Len(entries) = 2

(***************************************************************************)
(* Properties of probe_size_mtime, checked under ProbeSpec.                *)
(***************************************************************************)
\* The size known after the ranged response.
SizeAfterRange ==
    IF hdr.cr >= 0 THEN hdr.cr ELSE IF hdr.cl > 1 THEN hdr.cl ELSE Unknown

\* C18: the size reported by probe_size_mtime is the total of Content-Range
\* when it parses, otherwise the Content-Length of the ranged response when it
\* exceeds 1, otherwise the Content-Length of one more plain GET, otherwise
\* unknown; the plain GET is issued exactly when the size or the date is
\* unknown after the ranged response, and fills only what is missing.
ProbeSizeByPrecedence ==
    ppc = "returned" =>
        /\ pinfo.content_length =
              IF SizeAfterRange # Unknown THEN SizeAfterRange
              ELSE IF hdr.cl2 >= 0 THEN hdr.cl2 ELSE Unknown
        /\ pinfo.last_modified =
              IF hdr.lm >= 0 THEN hdr.lm
              ELSE IF hdr.lm2 >= 0 THEN hdr.lm2 ELSE Unknown
        /\ pgets \in {1, 2}
        /\ pgets = 2 <=> (SizeAfterRange = Unknown \/ hdr.lm < 0)

\* A ranged response without Content-Range and with Content-Length 1 and a
\* date: the plain GET gave the size and its other date was not taken.
RangeLengthOneFilledByPlainGet ==
    /\ ppc = "returned"
    /\ hdr.cr < 0
    /\ hdr.cl = 1
    /\ hdr.lm >= 0
    /\ hdr.cl2 > 1
    /\ hdr.lm2 >= 0
    /\ pinfo.content_length = hdr.cl2
    /\ pinfo.last_modified = hdr.lm
    /\ pgets = 2

(***************************************************************************)
(* The number of requests of get_with_edl, checked under FetchSpec.        *)
(***************************************************************************)
\* C19: a call of get_with_edl issues one request per iteration and so at most
\* max_hops requests: with username and password both present, a request to
\* an allow-listed host already carried the credentials, so that no iteration
\* sends a second request.
AtMostMaxHopsRequests ==
    /\ nreq <= max_hops
    /\ nreq = hops
    /\ (/\ fpc \in {"returned", "http_error"}
        /\ Truthy(username) /\ Truthy(password)
        /\ same_origin(current.host, EDL_HOSTS)) => current.host \in credHosts

\* A 401 from an allow-listed host to a request that carried the credentials:
\* the call raised without a second request.
Challenged401WithCredentials ==
    /\ fpc = "http_error"
    /\ lastStatus = 401
    /\ Truthy(username) /\ Truthy(password)
    /\ same_origin(current.host, EDL_HOSTS)
    /\ current.host \in credHosts
    /\ nreq = hops

====
